---- MODULE Spec2Model ----
(***************************************************************************)
(* Model of the fitting notebook of PopOff/BuckFit                         *)
(* (userguides/fitting.ipynb): the structure sampler                       *)
(* random_set_of_structures and the orchestrator run_fit.                  *)
(***************************************************************************)
EXTENDS Integers, Sequences, FiniteSets, TLC

\* ------------------------------------------------------------------ bounds
\* Largest integer argument (fits, structures, structures_to_fit) explored.
MaxArg == 3
\* Non-positive integer arguments explored: 0 down to -MaxNonPos.
MaxNonPos == 0
\* Largest integer seed explored.
MaxSeed == 1
\* Number of states of the modelled pseudo random generator.
RngMod == 11
\* Longest sequence of subsets handed to run_fit.
MaxSets == 2
\* Largest structure index and longest subset handed to run_fit.
MaxIdx == 1
MaxSubset == 2
\* Largest force or stress component explored, and most structures in one fit.
MaxVal == 1
MaxStructs == 2
\* Members of the optimiser's population, generations after the initial one,
\* grid points per stratum of the unit interval, and the largest lower bound.
PopSize == 3
MaxGen == 2
StratumRes == 2
MaxLo == 1
\* Largest charge and dq value, in hundredths, and most dq values applied.
MaxCharge == 2
MaxDq == 2
MaxApplied == 2

VARIABLES
    fits, structures, structures_to_fit, seed,  \* arguments of random_set_of_structures
    rng,                \* state of the process-global generator np.random
    pc,                 \* position in random_set_of_structures
    sets_of_structures, \* the local list of accepted subsets
    ret,                \* what the call produced: "pending", "None", "array", "raise"
    result,             \* the returned array (a sequence of subsets)
    err,                \* the exception raised, "" when none
    seeded, drew,       \* history: np.random.seed / np.random.randint was called in this call
    call,               \* 1 for the first call, 2 for the repeated call
    prev,               \* outcome of the first call, kept for comparison
    entry,              \* history: state of the generator when the call was entered
    left,               \* history: state of the generator when the call ended
    fit_sets,           \* run_fit: its argument sets_of_structures
    fit,                \* run_fit: index of the subset being processed (1-based)
    fpc,                \* run_fit: position
    bound,              \* run_fit: whether the name fit_data is bound
    ferr,               \* run_fit: the call whose exception left run_fit, "" when none
    fit_output,         \* run_fit: the local fit_output, the optimiser's last result
    log,                \* run_fit: the calls made so far, in order
    sel,                \* error check: data of the structures of the fit
    epc,                \* error check: position
    reported,           \* error check: the error the fit reported
    files,              \* error check: the arrays save_data wrote
    arrays,             \* error check: dft_forces, ip_forces, dft_stresses, ip_stresses as loaded
    terms,              \* error check: force_diff, stress_diff and their weighted sum
    first,              \* error check: the terms of the fit before every structure was doubled
    doubled,            \* error check: the fit in hand has every structure twice
    de_bounds,          \* optimiser: bounds, one [lo, hi] per label
    de_seed,            \* optimiser: seed
    de_rng,             \* optimiser: state of its RandomState
    population,         \* optimiser: population, in the unit interval
    population_energies,\* optimiser: energy of each member
    trial_raw,          \* optimiser: this generation's mutants before the constraint
    trial_pop,          \* optimiser: this generation's candidates
    trial_energies,     \* optimiser: energies the workers have returned
    finished,           \* optimiser: candidates in the order the workers finished
    gen,                \* optimiser: generation being scored (0: initial population)
    dpc,                \* optimiser: position
    q_base,             \* charges: the charges set in params
    charges,            \* charges: the charges after the dq values applied so far
    dq_log,             \* charges: the dq values applied, in order
    qpc                 \* charges: position

samplerVars == <<fits, structures, structures_to_fit, seed, rng, pc,
                 sets_of_structures, ret, result, err, seeded, drew, call, prev, entry, left>>
fitVars == <<fit_sets, fit, fpc, bound, ferr, fit_output, log>>
errVars == <<sel, epc, reported, files, arrays, terms, first, doubled>>
deVars == <<de_bounds, de_seed, de_rng, population, population_energies,
            trial_raw, trial_pop, trial_energies, finished, gen, dpc>>
chargeVars == <<q_base, charges, dq_log, qpc>>
vars == <<fits, structures, structures_to_fit, seed, rng, pc,
          sets_of_structures, ret, result, err, seeded, drew, call, prev, entry, left,
          fit_sets, fit, fpc, bound, ferr, fit_output, log,
          sel, epc, reported, files, arrays, terms, first, doubled,
          de_bounds, de_seed, de_rng, population, population_energies,
          trial_raw, trial_pop, trial_energies, finished, gen, dpc,
          q_base, charges, dq_log, qpc>>

\* ------------------------------------------------------------ input values
\* A Python value passed for an integer argument: an int, or something else.
IntArg(n) == [isint |-> TRUE, v |-> n]
NonInt == [isint |-> FALSE, v |-> 0]
ArgValues == {IntArg(n) : n \in (0 - MaxNonPos)..MaxArg} \cup {NonInt}

\* A Python value passed for seed: False (the default), an int, an ndarray,
\* or anything else (None, a list, a string).
SeedFalse == [kind |-> "False", v |-> 0]
SeedValues == {SeedFalse} \cup {[kind |-> "int", v |-> s] : s \in 0..MaxSeed}
                \cup {[kind |-> "ndarray", v |-> 0], [kind |-> "other", v |-> 0]}

\* ------------------------------------------------- the random generator
\* One step of the generator: a deterministic function of its state.
RngStep(s) == (s + 5) % RngMod

\* np.random.seed(seed): the new state depends on the seed alone.
NpSeedKeep(state, sd) == state
NpSeed(state, sd) ==
    IF sd.kind = "int" THEN (sd.v * 3 + 1) % RngMod ELSE 5 % RngMod

\* np.random.randint(0, high, size): size draws in [0, high), one generator
\* step each; gives the values and the state left behind.
RECURSIVE RandInt(_, _, _)
RandInt(state, high, size) ==
    IF size <= 0 THEN [vals |-> <<>>, state |-> state]
    ELSE LET s1 == RngStep(state)
             rest == RandInt(s1, high, size - 1)
         IN [vals |-> <<s1 % high>> \o rest.vals, state |-> rest.state]

\* ------------------------------------------------------------- np.sort
RECURSIVE Insert(_, _)
Insert(x, s) ==
    IF s = <<>> THEN <<x>>
    ELSE IF x <= Head(s) THEN <<x>> \o s
    ELSE <<Head(s)>> \o Insert(x, Tail(s))

RECURSIVE NpSortRec(_)
NpSortRec(s) == IF s = <<>> THEN <<>> ELSE Insert(Head(s), NpSortRec(Tail(s)))

NpSortNone(s) == s
NpSort(s) == NpSortRec(s)

\* set(struct_set)
PySet(s) == {s[i] : i \in 1..Len(s)}

\* np.array_equiv(a, b) for two 1-d arrays of the same length
ArrayEquivNever(a, b) == FALSE
ArrayEquiv(a, b) == Len(a) = Len(b) /\ \A i \in 1..Len(a) : a[i] = b[i]

\* ------------------------------------------ random_set_of_structures
\* Lines 66-69, for one argument x.
ArgErrorStrict(x) ==
    IF ~x.isint THEN "TypeError" ELSE IF x.v < 0 THEN "ValueError" ELSE ""
ArgError(x) ==
    IF ~x.isint THEN "TypeError" ELSE IF x.v <= 0 THEN "ValueError" ELSE ""

\* Lines 65-69: the first error over [fits, structures, structures_to_fit].
FirstError ==
    IF ArgError(fits) # "" THEN ArgError(fits)
    ELSE IF ArgError(structures) # "" THEN ArgError(structures)
    ELSE ArgError(structures_to_fit)

CheckArgs ==
    /\ pc = "check"
    /\ IF FirstError # ""
         THEN /\ pc' = "raised"
              /\ err' = FirstError
              /\ ret' = "raise"
         ELSE /\ pc' = "seed"
              /\ UNCHANGED <<err, ret>>
    /\ UNCHANGED <<fits, structures, structures_to_fit, seed, rng,
                   sets_of_structures, result, seeded, drew, call, prev, entry>>
    /\ left' = IF pc' = "raised" THEN rng ELSE left
    /\ UNCHANGED <<fitVars, errVars, deVars, chargeVars>>

\* Lines 71-76 and the fall off the end of the function when seed is False.
SeedStep ==
    /\ pc = "seed"
    /\ IF seed.kind = "False"
         THEN /\ pc' = "done"
              /\ ret' = "None"
              /\ UNCHANGED <<rng, err, seeded, sets_of_structures>>
         ELSE IF seed.kind \notin {"int", "ndarray"}
         THEN /\ pc' = "raised"
              /\ err' = "TypeError"
              /\ ret' = "raise"
              /\ UNCHANGED <<rng, seeded, sets_of_structures>>
         ELSE /\ rng' = NpSeed(rng, seed)
              /\ seeded' = TRUE
              /\ sets_of_structures' = <<>>
              /\ pc' = "loop"
              /\ UNCHANGED <<err, ret>>
    /\ UNCHANGED <<fits, structures, structures_to_fit, seed, result, drew, call, prev, entry>>
    /\ left' = IF pc' \in {"done", "raised"} THEN rng ELSE left
    /\ UNCHANGED <<fitVars, errVars, deVars, chargeVars>>

\* Line 77: the loop condition.
LoopCondLeq(n, f) == n <= f
LoopCond(n, f) == n < f

\* Lines 79-82: the list after one drawn struct_set.
Accept(acc, struct_set, k) ==
    IF Cardinality(PySet(struct_set)) # k THEN acc
    ELSE IF ~ \E i \in 1..Len(acc) : ArrayEquiv(struct_set, acc[i])
    THEN Append(acc, struct_set)
    ELSE acc

\* Lines 77-82: one iteration of the retry loop.
LoopIter ==
    /\ pc = "loop"
    /\ LoopCond(Len(sets_of_structures), fits.v)
    /\ LET d == RandInt(rng, structures.v, structures_to_fit.v)
           struct_set == NpSort(d.vals)
       IN /\ rng' = d.state
          /\ sets_of_structures' = Accept(sets_of_structures, struct_set, structures_to_fit.v)
    /\ drew' = TRUE
    /\ UNCHANGED <<fits, structures, structures_to_fit, seed, pc, ret, result,
                   err, seeded, call, prev, entry, left>>
    /\ UNCHANGED <<fitVars, errVars, deVars, chargeVars>>

\* Lines 77 and 83: the loop ends and the array is returned.
Return ==
    /\ pc = "loop"
    /\ ~LoopCond(Len(sets_of_structures), fits.v)
    /\ pc' = "done"
    /\ ret' = "array"
    /\ result' = sets_of_structures
    /\ UNCHANGED <<fits, structures, structures_to_fit, seed, rng,
                   sets_of_structures, err, seeded, drew, call, prev, entry>>
    /\ left' = rng
    /\ UNCHANGED <<fitVars, errVars, deVars, chargeVars>>

Finished == pc \in {"done", "raised"}

\* Other code of the process draws from the global generator between the calls.
GlobalDraw ==
    /\ Finished /\ call = 1
    /\ prev.ret = "pending"
    /\ rng' = RngStep(rng)
    /\ UNCHANGED <<fits, structures, structures_to_fit, seed, pc,
                   sets_of_structures, ret, result, err, seeded, drew, call, prev, entry, left>>
    /\ UNCHANGED <<fitVars, errVars, deVars, chargeVars>>

\* Line 252 executed again: the same call with the same arguments.
CallAgain ==
    /\ Finished /\ call = 1
    /\ prev' = [ret |-> ret, result |-> result, err |-> err, entry |-> entry, left |-> left]
    /\ entry' = rng
    /\ left' = 0
    /\ call' = 2
    /\ pc' = "check"
    /\ ret' = "pending"
    /\ result' = <<>>
    /\ err' = ""
    /\ sets_of_structures' = <<>>
    /\ seeded' = FALSE
    /\ drew' = FALSE
    /\ UNCHANGED <<fits, structures, structures_to_fit, seed, rng>>
    /\ UNCHANGED <<fitVars, errVars, deVars, chargeVars>>

NoPrev == [ret |-> "pending", result |-> <<>>, err |-> "", entry |-> 0, left |-> 0]

\* A local name that no statement has assigned yet.
Unbound == [x |-> <<"unbound">>, fun |-> <<"unbound">>]

\* A rational number num/den; the notebook computes in floating point.
Rat(n, d) == [num |-> n, den |-> d]
NoTerms == [force_diff |-> Rat(0, 1), stress_diff |-> Rat(0, 1), total |-> Rat(0, 1)]
NoArrays == [dft_forces |-> <<>>, ip_forces |-> <<>>,
             dft_stresses |-> <<>>, ip_stresses |-> <<>>]

ErrIdle ==
    /\ sel = <<>>
    /\ epc = "idle"
    /\ reported = Rat(0, 1)
    /\ files = NoArrays
    /\ arrays = NoArrays
    /\ terms = NoTerms
    /\ first = NoTerms
    /\ doubled = FALSE

NoCharges == [Li |-> [core |-> 0, shell |-> 0], O |-> [core |-> 0, shell |-> 0]]
ChargeIdle ==
    /\ q_base = NoCharges
    /\ charges = NoCharges
    /\ dq_log = <<>>
    /\ qpc = "idle"

DEIdle ==
    /\ de_bounds = <<>>
    /\ de_seed = 0
    /\ de_rng = 0
    /\ population = <<>>
    /\ population_energies = <<>>
    /\ trial_raw = <<>>
    /\ trial_pop = <<>>
    /\ trial_energies = <<>>
    /\ finished = <<>>
    /\ gen = 0
    /\ dpc = "idle"

FitIdle ==
    /\ fit_sets = <<>>
    /\ fit = 0
    /\ fpc = "idle"
    /\ bound = FALSE
    /\ ferr = ""
    /\ fit_output = Unbound
    /\ log = <<>>

Init ==
    /\ fits \in ArgValues
    /\ structures \in ArgValues
    /\ structures_to_fit \in ArgValues
    /\ seed \in SeedValues
    /\ rng \in 0..(RngMod - 1)
    /\ pc = "check"
    /\ sets_of_structures = <<>>
    /\ ret = "pending"
    /\ result = <<>>
    /\ err = ""
    /\ seeded = FALSE
    /\ drew = FALSE
    /\ call = 1
    /\ prev = NoPrev
    /\ entry = rng
    /\ left = 0
    /\ FitIdle
    /\ ErrIdle
    /\ DEIdle
    /\ ChargeIdle

Next ==
    \/ CheckArgs
    \/ SeedStep
    \/ LoopIter
    \/ Return
    \/ GlobalDraw
    \/ CallAgain

Spec == Init /\ [][Next]_vars

\* ------------------------------------------------------------- run_fit
SamplerIdle ==
    /\ fits = IntArg(1)
    /\ structures = IntArg(1)
    /\ structures_to_fit = IntArg(1)
    /\ seed = SeedFalse
    /\ rng = 0
    /\ pc = "idle"
    /\ sets_of_structures = <<>>
    /\ ret = "pending"
    /\ result = <<>>
    /\ err = ""
    /\ seeded = FALSE
    /\ drew = FALSE
    /\ call = 1
    /\ prev = NoPrev
    /\ entry = 0
    /\ left = 0

\* The subsets a caller can hand to run_fit: sampled, or written by hand in
\* any order.
RECURSIVE SeqsUpTo(_, _)
SeqsUpTo(S, n) ==
    IF n = 0 THEN {<<>>}
    ELSE LET shorter == SeqsUpTo(S, n - 1)
         IN shorter \cup {Append(q, x) : q \in shorter, x \in S}

\* An np.array of subsets: every row has the same length k.
Rows(k) == {q \in SeqsUpTo(0..MaxIdx, k) : Len(q) = k}
FitInputs == UNION {SeqsUpTo(Rows(k), MaxSets) : k \in 1..MaxSubset}

\* '{}'.format(n) for a non-negative int n: its decimal digits.
DigitChar(d) == <<"0", "1", "2", "3", "4", "5", "6", "7", "8", "9">>[d + 1]
RECURSIVE Format(_)
Format(n) ==
    IF n < 10 THEN <<DigitChar(n)>>
    ELSE Format(n \div 10) \o <<DigitChar(n % 10)>>

\* sep.join(parts), a string as the sequence of its characters.
RECURSIVE Join(_, _)
Join(sep, parts) ==
    IF parts = <<>> THEN <<>>
    ELSE IF Len(parts) = 1 THEN parts[1]
    ELSE parts[1] \o <<sep>> \o Join(sep, Tail(parts))

\* Line 106: '-'.join(['{}'.format(struct+1) for struct in structs]): the
\* structure numbers in the order the subset lists them.
LocalStructDir(structs) ==
    Join("-", [i \in 1..Len(structs) |-> Format(structs[i] + 1)])

\* The arguments run_fit was given and passes on unchanged.
Labels == "labels"
Bounds == "bounds"

\* Lines 102-104: what the optimiser returns for the objective of the subset
\* in hand, identified by the call that produced it.
OptimizeResult(f) == [x |-> <<"best vector of fit", f>>, fun |-> <<"error of fit", f>>]

Called(op, arg) == [op |-> op, fit |-> fit, arg |-> arg]

\* Lines 99-108: the statement that follows each statement of the loop body.
NextPosValidateLate(p) ==
    CASE p = "collect_info" -> "differential_evolution"
      [] p = "differential_evolution" -> "setup_error_checks"
      [] p = "setup_error_checks" -> "extract_stresses_and_forces"
      [] p = "extract_stresses_and_forces" -> "create_directory"
      [] p = "create_directory" -> "save_data"
      [] OTHER -> "for"
NextPosExtractEarly(p) ==
    CASE p = "collect_info" -> "setup_error_checks"
      [] p = "setup_error_checks" -> "extract_stresses_and_forces"
      [] p = "extract_stresses_and_forces" -> "differential_evolution"
      [] p = "differential_evolution" -> "create_directory"
      [] p = "create_directory" -> "save_data"
      [] OTHER -> "for"
NextPos(p) ==
    CASE p = "collect_info" -> "setup_error_checks"
      [] p = "setup_error_checks" -> "differential_evolution"
      [] p = "differential_evolution" -> "extract_stresses_and_forces"
      [] p = "extract_stresses_and_forces" -> "create_directory"
      [] p = "create_directory" -> "save_data"
      [] OTHER -> "for"

\* Line 98: the for statement takes the next subset or ends the loop.
ForNext ==
    /\ fpc = "for"
    /\ IF fit < Len(fit_sets)
         THEN /\ fit' = fit + 1
              /\ fpc' = "collect_info"
         ELSE /\ fpc' = "reset_directories"
              /\ UNCHANGED fit
    /\ UNCHANGED <<fit_sets, bound, ferr, fit_output, log>>
    /\ UNCHANGED <<samplerVars, errVars, deVars, chargeVars>>

\* One call of the loop body to popoff or scipy: it returns, or it raises and
\* the exception leaves run_fit (there is no try statement).
BodyCallSkipError(op, arg) ==
    /\ fpc = op
    /\ log' = Append(log, Called(op, arg))
    /\ \E raises \in BOOLEAN :
         /\ fpc' = NextPos(op)
         /\ ferr' = IF raises THEN op ELSE ferr
    /\ UNCHANGED <<fit_sets, fit>>
    /\ UNCHANGED <<samplerVars, errVars, deVars, chargeVars>>
BodyCall(op, arg) ==
    /\ fpc = op
    /\ log' = Append(log, Called(op, arg))
    /\ \E raises \in BOOLEAN :
         IF raises
           THEN /\ fpc' = "raised"
                /\ ferr' = op
           ELSE /\ fpc' = NextPos(op)
                /\ UNCHANGED ferr
    /\ UNCHANGED <<fit_sets, fit>>
    /\ UNCHANGED <<samplerVars, errVars, deVars, chargeVars>>

\* Line 99
CollectInfo ==
    /\ BodyCall("collect_info", fit_sets[fit])
    /\ bound' = (bound \/ fpc' # "raised")
    /\ UNCHANGED fit_output

\* Line 100
SetupErrorChecks ==
    BodyCall("setup_error_checks", [labels |-> Labels, bounds |-> Bounds])
    /\ UNCHANGED <<bound, fit_output>>

\* Lines 102-104
DifferentialEvolution ==
    /\ BodyCall("differential_evolution", [labels |-> Labels, bounds |-> Bounds])
    /\ fit_output' = IF fpc' = "raised" THEN fit_output ELSE OptimizeResult(fit)
    /\ UNCHANGED bound

\* Line 105
ExtractStressesAndForces ==
    BodyCall("extract_stresses_and_forces", [x |-> fit_output.x, labels |-> Labels])
    /\ UNCHANGED <<bound, fit_output>>

\* Lines 106-107
CreateDirectory ==
    BodyCall("create_directory", LocalStructDir(fit_sets[fit]))
    /\ UNCHANGED <<bound, fit_output>>

\* Line 108
SaveData ==
    BodyCall("save_data", [dir |-> LocalStructDir(fit_sets[fit]), labels |-> Labels,
                           fit_output |-> fit_output])
    /\ UNCHANGED <<bound, fit_output>>

\* Line 109, after the loop: fit_data is the last subset's object, and is
\* unbound when the loop body never assigned it.
ResetDirectories ==
    /\ fpc = "reset_directories"
    /\ IF bound
         THEN /\ log' = Append(log, Called("reset_directories", <<>>))
              /\ \E raises \in BOOLEAN :
                   IF raises
                     THEN fpc' = "raised" /\ ferr' = "reset_directories"
                     ELSE fpc' = "returned" /\ UNCHANGED ferr
         ELSE /\ fpc' = "raised"
              /\ ferr' = "NameError"
              /\ UNCHANGED log
    /\ UNCHANGED <<fit_sets, fit, bound, fit_output>>
    /\ UNCHANGED <<samplerVars, errVars, deVars, chargeVars>>

FitInit ==
    /\ SamplerIdle
    /\ ErrIdle
    /\ DEIdle
    /\ ChargeIdle
    /\ fit_sets \in FitInputs
    /\ fit = 0
    /\ fpc = "for"
    /\ bound = FALSE
    /\ ferr = ""
    /\ fit_output = Unbound
    /\ log = <<>>

FitNext ==
    \/ ForNext
    \/ CollectInfo
    \/ SetupErrorChecks
    \/ DifferentialEvolution
    \/ ExtractStressesAndForces
    \/ CreateDirectory
    \/ SaveData
    \/ ResetDirectories

SpecFit == FitInit /\ [][FitNext]_vars

\* ------------------------------------------- chi-squared decomposition
\* Number of independent stress components, and 1/0.001, the stress scaling.
StressComponents == 6
StressScaleInv == 1000

RECURSIVE GCD(_, _)
GCD(m, n) == IF n = 0 THEN m ELSE GCD(n, m % n)
\* A fraction in lowest terms, so that equal values are equal records.
Lowest(r) == LET g == GCD(r.num, r.den) IN Rat(r.num \div g, r.den \div g)
RatAdd(a, b) == Lowest(Rat(a.num * b.den + b.num * a.den, a.den * b.den))
RatMul(a, b) == Lowest(Rat(a.num * b.num, a.den * b.den))
RatEq(a, b) == Lowest(a) = Lowest(b)

\* One structure of the fit: reference (dft) and predicted (ip) forces, one
\* row of 3 components per atom, and the 6 stress components.
StructureData(a, b, c) ==
    [dft_forces |-> << <<a, b, c>> >>, ip_forces |-> << <<b, c, a>> >>,
     dft_stresses |-> <<a, b, c, a, b, c>>, ip_stresses |-> <<c, c, b, b, a, a>>]
StructureValues ==
    {StructureData(a, b, c) : a \in 0..MaxVal, b \in 0..MaxVal, c \in 0..MaxVal}

RECURSIVE SumSeq(_)
SumSeq(q) == IF q = <<>> THEN 0 ELSE Head(q) + SumSeq(Tail(q))

SquaredResiduals(ref, pred) == [i \in 1..Len(ref) |-> (pred[i] - ref[i]) * (pred[i] - ref[i])]

RECURSIVE Concat(_)
Concat(rows) == IF rows = <<>> THEN <<>> ELSE Head(rows) \o Concat(Tail(rows))

\* The error the fit reports: squared force residuals accumulated over the
\* atoms of every structure and divided by the number of force components,
\* plus 0.001 times the squared stress residuals accumulated over every
\* structure and divided by 6.
RECURSIVE Accumulate(_, _)
Accumulate(structs, acc) ==
    IF structs = <<>> THEN acc
    ELSE LET st == Head(structs)
             f == SumSeq(SquaredResiduals(Concat(st.dft_forces), Concat(st.ip_forces)))
             t == SumSeq(SquaredResiduals(st.dft_stresses, st.ip_stresses))
         IN Accumulate(Tail(structs),
                       [force |-> acc.force + f, stress |-> acc.stress + t,
                        components |-> acc.components + Len(Concat(st.dft_forces))])

ChiSquaredError(structs) ==
    LET acc == Accumulate(structs, [force |-> 0, stress |-> 0, components |-> 0])
    IN RatAdd(Rat(acc.force, acc.components),
              RatMul(Rat(1, StressScaleInv), Rat(acc.stress, StressComponents)))

\* The files save_data writes: one line per atom of every structure for the
\* forces, one line per structure for the stresses.
SavedFiles(structs) ==
    [dft_forces |-> Concat([i \in 1..Len(structs) |-> structs[i].dft_forces]),
     ip_forces |-> Concat([i \in 1..Len(structs) |-> structs[i].ip_forces]),
     dft_stresses |-> [i \in 1..Len(structs) |-> structs[i].dft_stresses],
     ip_stresses |-> [i \in 1..Len(structs) |-> structs[i].ip_stresses]]

\* np.loadtxt(file, delimiter=' '): a file of one line loads as a 1-d array,
\* a file of several lines as a 2-d array.
LoadTxt(lines) == [ndim |-> IF Len(lines) = 1 THEN 1 ELSE 2, rows |-> lines]

\* a - b and a**2, elementwise, for arrays of one shape.
NpSub(a, b) ==
    [ndim |-> a.ndim,
     rows |-> [i \in 1..Len(a.rows) |->
                 [j \in 1..Len(a.rows[i]) |-> a.rows[i][j] - b.rows[i][j]]]]
NpSquare(a) ==
    [ndim |-> a.ndim,
     rows |-> [i \in 1..Len(a.rows) |->
                 [j \in 1..Len(a.rows[i]) |-> a.rows[i][j] * a.rows[i][j]]]]
\* np.sum(a) and a.size
NpSum(a) == SumSeq(Concat(a.rows))
NpSizeOfRow(a) == Len(a.rows[1])
NpSize(a) == Len(Concat(a.rows))

\* plotting.ipynb line 183
ForceDiff(dft_forces, ip_forces) ==
    Rat(NpSum(NpSquare(NpSub(dft_forces, ip_forces))), NpSize(dft_forces))
\* plotting.ipynb line 184
StressDiff(dft_stresses, ip_stresses) ==
    Rat(NpSum(NpSquare(NpSub(dft_stresses, ip_stresses))), StressComponents)
\* plotting.ipynb line 185
TotalUnscaled(force_diff, stress_diff) == RatAdd(force_diff, stress_diff)
Total(force_diff, stress_diff) ==
    RatAdd(force_diff, RatMul(stress_diff, Rat(1, StressScaleInv)))

\* The fit ends: it reports its error and save_data writes the arrays.
ErrFit ==
    /\ epc = "fit"
    /\ reported' = ChiSquaredError(sel)
    /\ files' = SavedFiles(sel)
    /\ epc' = "saved"
    /\ UNCHANGED <<sel, arrays, terms, first, doubled>>
    /\ UNCHANGED <<samplerVars, fitVars, deVars, chargeVars>>

\* plotting.ipynb lines 131-135
ErrLoad ==
    /\ epc = "saved"
    /\ arrays' = [dft_forces |-> LoadTxt(files.dft_forces),
                  ip_forces |-> LoadTxt(files.ip_forces),
                  dft_stresses |-> LoadTxt(files.dft_stresses),
                  ip_stresses |-> LoadTxt(files.ip_stresses)]
    /\ epc' = "loaded"
    /\ UNCHANGED <<sel, reported, files, terms, first, doubled>>
    /\ UNCHANGED <<samplerVars, fitVars, deVars, chargeVars>>

\* plotting.ipynb lines 183-185
ErrRecompute ==
    /\ epc = "loaded"
    /\ LET force_diff == ForceDiff(arrays.dft_forces, arrays.ip_forces)
           stress_diff == StressDiff(arrays.dft_stresses, arrays.ip_stresses)
       IN terms' = [force_diff |-> force_diff, stress_diff |-> stress_diff,
                    total |-> Total(force_diff, stress_diff)]
    /\ epc' = "recomputed"
    /\ UNCHANGED <<sel, reported, files, arrays, first, doubled>>
    /\ UNCHANGED <<samplerVars, fitVars, deVars, chargeVars>>

\* The fit is run again on the set in which every structure appears twice.
ErrRefitDoubled ==
    /\ epc = "recomputed"
    /\ ~doubled
    /\ first' = terms
    /\ sel' = sel \o sel
    /\ doubled' = TRUE
    /\ epc' = "fit"
    /\ UNCHANGED <<reported, files, arrays, terms>>
    /\ UNCHANGED <<samplerVars, fitVars, deVars, chargeVars>>

ErrInit ==
    /\ SamplerIdle
    /\ FitIdle
    /\ DEIdle
    /\ ChargeIdle
    /\ sel \in SeqsUpTo(StructureValues, MaxStructs) \ {<<>>}
    /\ epc = "fit"
    /\ reported = Rat(0, 1)
    /\ files = NoArrays
    /\ arrays = NoArrays
    /\ terms = NoTerms
    /\ first = NoTerms
    /\ doubled = FALSE

ErrNext ==
    \/ ErrFit
    \/ ErrLoad
    \/ ErrRecompute
    \/ ErrRefitDoubled

SpecErr == ErrInit /\ [][ErrNext]_vars

\* ------------------------------------------------ differential evolution
\* optimize.differential_evolution(fit_data.chi_squared_error, bounds=bounds,
\* args=([labels]), updating='deferred', init='latinhypercube', workers=-1,
\* seed=seed): the population lives in the unit interval, here the grid
\* 0..Unit, and is scaled to the bounds when handed to the objective.
FitLabels == <<"dq_O", "q_scaling">>
Dim == Len(FitLabels)
Unit == PopSize * StratumRes

BoundValues == {[lo |-> l, hi |-> 2 * l + 1] : l \in 0..MaxLo}
BoundsValues == [1..Dim -> BoundValues]

\* Energies: np.inf until scored.
Infinite == [finite |-> FALSE, val |-> 0]
Energy(v) == [finite |-> TRUE, val |-> v]
Less(a, b) == a.finite /\ (~b.finite \/ a.val < b.val)

\* The objective is a pure function of the candidate vector.
Objective(x) == SumSeq([j \in 1..Len(x) |-> x[j] * x[j]])

\* Component j of a unit vector scaled to bounds[j], in units of 1/Unit.
ScaleParameters(u, bnds) ==
    [j \in 1..Len(u) |-> bnds[j].lo * Unit + u[j] * (bnds[j].hi - bnds[j].lo)]

\* A random permutation of q.
RECURSIVE Shuffle(_, _)
Shuffle(q, state) ==
    IF Len(q) <= 1 THEN [vals |-> q, state |-> state]
    ELSE LET d == RandInt(state, Len(q), 1)
             at == d.vals[1] + 1
             rest == SubSeq(q, 1, at - 1) \o SubSeq(q, at + 1, Len(q))
             r == Shuffle(rest, d.state)
         IN [vals |-> <<q[at]>> \o r.vals, state |-> r.state]

\* init='latinhypercube': per parameter, one point in each of PopSize strata
\* of the unit interval, the strata in random order over the members.
RECURSIVE LhsColumns(_, _)
LhsColumns(n, state) ==
    IF n = 0 THEN [cols |-> <<>>, state |-> state]
    ELSE LET off == RandInt(state, StratumRes, PopSize)
             col == [k \in 1..PopSize |-> (k - 1) * StratumRes + off.vals[k]]
             sh == Shuffle(col, off.state)
             rest == LhsColumns(n - 1, sh.state)
         IN [cols |-> <<sh.vals>> \o rest.cols, state |-> rest.state]

InitPopulationLhs(state) ==
    LET c == LhsColumns(Dim, state)
    IN [rows |-> [i \in 1..PopSize |-> [j \in 1..Dim |-> c.cols[j][i]]],
        state |-> c.state]

\* The mutant of member i: best + (r0 - r1) for two other members chosen at
\* random, crossed with member i (one component always taken from the mutant).
Mutate(i, pop, state) ==
    LET others == SelectSeq([k \in 1..PopSize |-> k], LAMBDA k : k # i)
        sh == Shuffle(others, state)
        r0 == sh.vals[1]
        r1 == sh.vals[2]
        fill == RandInt(sh.state, Dim, 1)
        cross == RandInt(fill.state, 2, Dim)
        bprime == [j \in 1..Dim |-> pop[1][j] + pop[r0][j] - pop[r1][j]]
    IN [trial |-> [j \in 1..Dim |->
                     IF j = fill.vals[1] + 1 \/ cross.vals[j] = 1
                     THEN bprime[j] ELSE pop[i][j]],
        state |-> cross.state]

RECURSIVE Mutants(_, _, _)
Mutants(i, pop, state) ==
    IF i > PopSize THEN [rows |-> <<>>, state |-> state]
    ELSE LET m == Mutate(i, pop, state)
             rest == Mutants(i + 1, pop, m.state)
         IN [rows |-> <<m.trial>> \o rest.rows, state |-> rest.state]

\* Components outside the unit interval are drawn again inside it.
RECURSIVE EnsureRow(_, _)
EnsureRow(v, state) ==
    IF v = <<>> THEN [vals |-> <<>>, state |-> state]
    ELSE LET out == Head(v) > Unit \/ Head(v) < 0
             d == RandInt(state, Unit, 1)
             rest == EnsureRow(Tail(v), IF out THEN d.state ELSE state)
         IN [vals |-> <<IF out THEN d.vals[1] ELSE Head(v)>> \o rest.vals,
             state |-> rest.state]

RECURSIVE EnsureRows(_, _)
EnsureRows(rows, state) ==
    IF rows = <<>> THEN [rows |-> <<>>, state |-> state]
    ELSE LET r == EnsureRow(Head(rows), state)
             rest == EnsureRows(Tail(rows), r.state)
         IN [rows |-> <<r.vals>> \o rest.rows, state |-> rest.state]

EnsureConstraintNone(rows, state) == [rows |-> rows, state |-> state]
EnsureConstraint(rows, state) == EnsureRows(rows, state)

\* np.argmin: the first index of the lowest energy.
ArgMin(es) ==
    CHOOSE i \in 1..Len(es) :
        /\ \A k \in 1..Len(es) : ~Less(es[k], es[i])
        /\ \A k \in 1..(i - 1) : Less(es[i], es[k])

Swap(q, l) == [q EXCEPT ![1] = q[l], ![l] = q[1]]

\* updating='deferred': a candidate replaces its member when its energy is
\* lower, for the whole generation at once; the best member is then moved to
\* the front.
Selection(pop, es, tpop, tes) ==
    LET loc == [i \in 1..PopSize |-> Less(tes[i], es[i])]
        npop == [i \in 1..PopSize |-> IF loc[i] THEN tpop[i] ELSE pop[i]]
        nes == [i \in 1..PopSize |-> IF loc[i] THEN tes[i] ELSE es[i]]
        l == ArgMin(nes)
    IN [rows |-> Swap(npop, l), energies |-> Swap(nes, l)]

Unscored == [i \in 1..PopSize |-> Infinite]
Range(q) == {q[k] : k \in 1..Len(q)}

\* list(map(func, candidates)) over the workers: every candidate of the
\* generation has been scored.
GenerationAnyScored == \E i \in 1..PopSize : trial_energies[i].finite
GenerationScored == \A i \in 1..PopSize : trial_energies[i].finite

\* A worker returns the objective of candidate i.
DEEvalDone(i) ==
    /\ dpc = "scoring"
    /\ i \notin Range(finished)
    /\ trial_energies' =
         [trial_energies EXCEPT
            ![i] = Energy(Objective(ScaleParameters(trial_pop[i], de_bounds)))]
    /\ finished' = Append(finished, i)
    /\ UNCHANGED <<de_bounds, de_seed, de_rng, population, population_energies,
                   trial_raw, trial_pop, gen, dpc>>
    /\ UNCHANGED <<samplerVars, fitVars, errVars, chargeVars>>

\* The generation is complete: selection.
DEAdvance ==
    /\ dpc = "scoring"
    /\ GenerationScored
    /\ LET s == Selection(population, population_energies, trial_pop, trial_energies)
       IN /\ population' = s.rows
          /\ population_energies' = s.energies
    /\ dpc' = IF gen >= MaxGen THEN "done" ELSE "build"
    /\ UNCHANGED <<de_bounds, de_seed, de_rng, trial_raw, trial_pop,
                   trial_energies, finished, gen>>
    /\ UNCHANGED <<samplerVars, fitVars, errVars, chargeVars>>

\* The candidates of the next generation are built and handed to the workers.
DEBuildTrials ==
    /\ dpc = "build"
    /\ LET m == Mutants(1, population, de_rng)
           c == EnsureConstraint(m.rows, m.state)
       IN /\ trial_raw' = m.rows
          /\ trial_pop' = c.rows
          /\ de_rng' = c.state
    /\ trial_energies' = Unscored
    /\ finished' = <<>>
    /\ gen' = gen + 1
    /\ dpc' = "scoring"
    /\ UNCHANGED <<de_bounds, de_seed, population, population_energies>>
    /\ UNCHANGED <<samplerVars, fitVars, errVars, chargeVars>>

\* The call: the initial population is drawn and handed to the workers.
DEInit ==
    /\ SamplerIdle
    /\ FitIdle
    /\ ErrIdle
    /\ ChargeIdle
    /\ de_bounds \in BoundsValues
    /\ de_seed \in 0..MaxSeed
    /\ LET l == InitPopulationLhs(NpSeed(0, [kind |-> "int", v |-> de_seed]))
       IN /\ population = l.rows
          /\ trial_raw = l.rows
          /\ trial_pop = l.rows
          /\ de_rng = l.state
    /\ population_energies = Unscored
    /\ trial_energies = Unscored
    /\ finished = <<>>
    /\ gen = 0
    /\ dpc = "scoring"

DENext ==
    \/ \E i \in 1..PopSize : DEEvalDone(i)
    \/ DEAdvance
    \/ DEBuildTrials

SpecDE == DEInit /\ [][DENext]_vars

\* ----------------------------------------------------- charge separation
\* The label dq_x of a core-shell atom x: dq is added to the charge of the
\* core and subtracted from the charge of the shell; the charges of the
\* other atoms are left alone. Charges are counted in hundredths.
CoreShell == {"O"}
ChargeSeparationBothAdded(c, x, dq) ==
    [c EXCEPT ![x] = [core |-> c[x].core + dq, shell |-> c[x].shell + dq]]
ChargeSeparation(c, x, dq) ==
    [c EXCEPT ![x] = [core |-> c[x].core + dq, shell |-> c[x].shell - dq]]

ChargeValues == (0 - MaxCharge)..MaxCharge
DqValues == (0 - MaxDq)..MaxDq

\* A value of dq_x is applied to the charges in hand.
ApplyDq(x, dq) ==
    /\ qpc = "params"
    /\ Len(dq_log) < MaxApplied
    /\ x \in CoreShell
    /\ charges' = ChargeSeparation(charges, x, dq)
    /\ dq_log' = Append(dq_log, dq)
    /\ UNCHANGED <<q_base, qpc>>
    /\ UNCHANGED <<samplerVars, fitVars, errVars, deVars>>

ChargeInit ==
    /\ SamplerIdle
    /\ FitIdle
    /\ ErrIdle
    /\ DEIdle
    /\ \E li \in 1..MaxCharge, core \in ChargeValues, shell \in ChargeValues :
          q_base = [Li |-> [core |-> li, shell |-> 0],
                    O |-> [core |-> core, shell |-> shell]]
    /\ charges = q_base
    /\ dq_log = <<>>
    /\ qpc = "params"

ChargeNext == \E x \in DOMAIN charges, dq \in DqValues : ApplyDq(x, dq)

SpecCharge == ChargeInit /\ [][ChargeNext]_vars

\* ------------------------------------- the retry loop, any generator
\* Lines 77-82 with np.random.randint giving any struct_set of
\* structures_to_fit indices below structures.
DrawIter(d) ==
    /\ pc = "loop"
    /\ LoopCond(Len(sets_of_structures), fits.v)
    /\ sets_of_structures' = Accept(sets_of_structures, NpSort(d), structures_to_fit.v)
    /\ drew' = TRUE
    /\ UNCHANGED <<fits, structures, structures_to_fit, seed, rng, pc, ret, result,
                   err, seeded, call, prev, entry, left>>
    /\ UNCHANGED <<fitVars, errVars, deVars, chargeVars>>

\* The draws whose indices are the set S.
DrawSet(S) ==
    \E d \in [1..structures_to_fit.v -> 0..(structures.v - 1)] :
        PySet(d) = S /\ DrawIter(d)

IndexSets == SUBSET (0..(MaxArg - 1)) \ {{}}

\* A call with positive integers and a seed.
LiveInit ==
    /\ fits \in {IntArg(n) : n \in 1..MaxArg}
    /\ structures \in {IntArg(n) : n \in 1..MaxArg}
    /\ structures_to_fit \in {IntArg(n) : n \in 1..MaxArg}
    /\ seed \in {sd \in SeedValues : sd.kind \in {"int", "ndarray"}}
    /\ rng = 0
    /\ pc = "check"
    /\ sets_of_structures = <<>>
    /\ ret = "pending"
    /\ result = <<>>
    /\ err = ""
    /\ seeded = FALSE
    /\ drew = FALSE
    /\ call = 1
    /\ prev = NoPrev
    /\ entry = rng
    /\ left = 0
    /\ FitIdle
    /\ ErrIdle
    /\ DEIdle
    /\ ChargeIdle

LiveNext ==
    \/ CheckArgs
    \/ SeedStep
    \/ \E S \in IndexSets : DrawSet(S)
    \/ Return

\* Every statement that can run does run, and the generator eventually
\* produces every possible draw.
SpecLive ==
    /\ LiveInit
    /\ [][LiveNext]_vars
    /\ WF_vars(CheckArgs)
    /\ WF_vars(SeedStep)
    /\ WF_vars(Return)
    /\ \A S \in IndexSets : WF_vars(DrawSet(S))

\* ------------------------------------- the sampler's output given to run_fit
\* Line 275: run_fit is called with the array line 252 got from
\* random_set_of_structures.
RunFitOnSample ==
    /\ pc = "done"
    /\ ret = "array"
    /\ fpc = "idle"
    /\ fit_sets' = result
    /\ fpc' = "for"
    /\ UNCHANGED <<fit, bound, ferr, fit_output, log>>
    /\ UNCHANGED <<samplerVars, errVars, deVars, chargeVars>>

PipeNext ==
    \/ CheckArgs
    \/ SeedStep
    \/ \E S \in IndexSets : DrawSet(S)
    \/ Return
    \/ RunFitOnSample
    \/ ForNext
    \/ CollectInfo
    \/ SetupErrorChecks
    \/ DifferentialEvolution
    \/ ExtractStressesAndForces
    \/ CreateDirectory
    \/ SaveData
    \/ ResetDirectories

SpecPipe == LiveInit /\ [][PipeNext]_vars

\* ------------------------------------------------------------ properties
Args == {fits, structures, structures_to_fit}
ValidArgs == \A x \in Args : x.isint /\ x.v > 0
SeedGiven == seed.kind \in {"int", "ndarray"}

RECURSIVE Choose(_, _)
Choose(n, k) ==
    IF k = 0 THEN 1
    ELSE IF k > n THEN 0
    ELSE Choose(n - 1, k - 1) + Choose(n - 1, k)

WellFormed(s) ==
    /\ Len(s) = structures_to_fit.v
    /\ \A i \in 1..Len(s) : s[i] \in 0..(structures.v - 1)
    /\ \A i \in 1..(Len(s) - 1) : s[i] < s[i + 1]

PairwiseDistinct(q) ==
    \A i, j \in 1..Len(q) : i # j => PySet(q[i]) # PySet(q[j])

\* C1: every subset accepted or returned by random_set_of_structures holds
\* exactly structures_to_fit indices, pairwise distinct, all in
\* [0, structures), in strictly ascending order.
C1_SubsetsWellFormed ==
    /\ \A i \in 1..Len(sets_of_structures) : WellFormed(sets_of_structures[i])
    /\ \A i \in 1..Len(result) : WellFormed(result[i])

\* A call returned two or more subsets of two or more indices each.
C1_Witness ==
    /\ pc = "done" /\ ret = "array"
    /\ structures_to_fit.v >= 2
    /\ Len(result) >= 2

\* C2: no two accepted subsets are equal as sets of indices, at every point
\* of the retry loop and in the returned sequence.
C2_NoDuplicateSubsets ==
    /\ PairwiseDistinct(sets_of_structures)
    /\ PairwiseDistinct(result)

\* The retry loop is about to draw a subset it has already accepted.
C2_Witness ==
    /\ pc = "loop"
    /\ LoopCond(Len(sets_of_structures), fits.v)
    /\ LET d == RandInt(rng, structures.v, structures_to_fit.v)
       IN /\ Cardinality(PySet(d.vals)) = structures_to_fit.v
          /\ \E i \in 1..Len(sets_of_structures) :
                PySet(sets_of_structures[i]) = PySet(d.vals)

\* C3: for positive integers with structures_to_fit < structures and fits
\* not above the number of distinct subsets, a seeded call that returns
\* returns an array of exactly fits subsets.
C3_ReturnsFitsSubsets ==
    ( /\ ValidArgs /\ SeedGiven
      /\ structures_to_fit.v < structures.v
      /\ fits.v <= Choose(structures.v, structures_to_fit.v)
      /\ pc = "done" )
    => (ret = "array" /\ Len(result) = fits.v)

\* A seeded call returned every one of the three subsets asked for.
C3_Witness ==
    /\ ValidArgs /\ SeedGiven
    /\ structures_to_fit.v < structures.v
    /\ fits.v = MaxArg
    /\ pc = "done" /\ Len(result) = fits.v

\* C4: with seed omitted (False) the call still samples and returns the
\* sequence of fits subsets.
C4_UnseededReturnsSubsets ==
    ( /\ ValidArgs /\ seed.kind = "False"
      /\ structures_to_fit.v < structures.v
      /\ fits.v <= Choose(structures.v, structures_to_fit.v)
      /\ pc = "done" )
    => (ret = "array" /\ Len(result) = fits.v)

\* C5: with structures_to_fit > structures the call fails with an error
\* and does not start sampling.
C5_TooManyToFitRaises ==
    (ValidArgs /\ SeedGiven /\ structures_to_fit.v > structures.v)
    => /\ ~drew
       /\ Finished => (pc = "raised" /\ ret = "raise")

\* C6: with structures_to_fit = structures the call short-circuits to one
\* subset whatever fits is: what it returns is one subset, and once that
\* subset is accepted the retry loop is over.
C6_AllStructuresShortCircuit ==
    (ValidArgs /\ SeedGiven /\ structures_to_fit.v = structures.v)
    => /\ pc = "done" => (ret = "array" /\ Len(result) = 1)
       /\ (pc = "loop" /\ Len(sets_of_structures) = 1)
             => ~LoopCond(Len(sets_of_structures), fits.v)

\* C7: a second call with the same arguments and the same seed returns the
\* same sequence of subsets as the first, whatever the generator's state was
\* when each call was entered.
C7_SameSeedSameResult ==
    (call = 2 /\ SeedGiven /\ pc = "done")
    => (prev.ret = "array" /\ ret = "array" /\ result = prev.result)

\* The second of two seeded calls returned two or more subsets, and the two
\* calls were entered with the generator in different states.
C7_Witness ==
    /\ call = 2 /\ SeedGiven /\ pc = "done"
    /\ Len(result) >= 2
    /\ entry # prev.entry

\* C8: if one of fits, structures, structures_to_fit is not an integer or is
\* not positive, the call raises TypeError (some argument is not an integer)
\* or ValueError (some integer argument is not positive) without seeding the
\* generator, drawing an index or returning subsets.
C8_InvalidArgsRaiseEarly ==
    (~ValidArgs)
    => /\ pc \in {"check", "raised"}
       /\ ~seeded /\ ~drew
       /\ sets_of_structures = <<>> /\ result = <<>>
       /\ ret \in {"pending", "raise"}
       /\ pc = "raised" =>
            /\ ret = "raise"
            /\ err \in {"TypeError", "ValueError"}
            /\ err = "TypeError" => \E x \in Args : ~x.isint
            /\ err = "ValueError" => \E x \in Args : x.isint /\ x.v <= 0

\* A call with fits = 0 and a non-integer structures has raised ValueError,
\* the error of the first offending argument.
C8_Witness ==
    /\ pc = "raised" /\ ~ValidArgs
    /\ SeedGiven
    /\ fits.isint /\ fits.v <= 0
    /\ ~structures.isint
    /\ err = "ValueError"

CountBefore(op, j) == Cardinality({i \in 1..(j - 1) : log[i].op = op})

\* C9: reset_directories is called once after each subset's fit: before the
\* collect_info of subset f there were f-1 resets, and a run_fit that returns
\* has made one reset per subset.
C9_ResetBetweenSubsets ==
    /\ \A j \in 1..Len(log) :
          log[j].op = "collect_info" => CountBefore("reset_directories", j) = log[j].fit - 1
    /\ fpc = "returned" => CountBefore("reset_directories", Len(log) + 1) = Len(fit_sets)

\* C10: for every subset setup_error_checks is called and has returned
\* before the optimizer is called; when it raises, run_fit has made no call
\* of the optimizer, the extraction or the persistence for that subset.
C10_ValidateBeforeOptimise ==
    /\ \A j \in 1..Len(log) :
          log[j].op = "differential_evolution"
          => \E i \in 1..(j - 1) :
                /\ log[i].op = "setup_error_checks"
                /\ log[i].fit = log[j].fit
    /\ (fpc = "raised" /\ ferr = "setup_error_checks")
          => \A j \in 1..Len(log) :
                log[j].fit = fit => log[j].op \in {"collect_info", "setup_error_checks"}
    /\ \A j \in 1..Len(log) :
          (log[j].op = "setup_error_checks" /\ j < Len(log))
          => log[j + 1].op = "differential_evolution" /\ log[j + 1].fit = log[j].fit

\* Validation raised for the second subset after the first was fitted and saved.
C10_Witness ==
    /\ fpc = "raised" /\ ferr = "setup_error_checks"
    /\ fit = 2
    /\ \E j \in 1..Len(log) : log[j].op = "save_data" /\ log[j].fit = 1

LogIdx == 1..Len(log)
Persisting == {"create_directory", "save_data"}

\* C11: when the optimisation or the extraction of a subset raises, run_fit
\* ends with that exception: the raising call is the last call made, no
\* directory or result file is written for that subset, and no later subset
\* is touched.
C11_EngineErrorAborts ==
    (ferr \in {"differential_evolution", "extract_stresses_and_forces"})
    => /\ fpc = "raised"
       /\ log[Len(log)].op = ferr /\ log[Len(log)].fit = fit
       /\ \A j \in LogIdx : log[j].fit <= fit
       /\ \A j \in LogIdx : log[j].fit = fit => log[j].op \notin Persisting

\* The extraction of the first of two subsets raised.
C11_Witness ==
    /\ fpc = "raised" /\ ferr = "extract_stresses_and_forces"
    /\ fit = 1 /\ Len(fit_sets) = 2

\* C12: per subset the order is optimise, extract, persist:
\* extract_stresses_and_forces is called at most once per subset, after the
\* optimiser call of that subset, with that call's best vector and the labels
\* the optimiser was given; create_directory and save_data come after the
\* extraction of that subset.
C12_OptimiseExtractPersist ==
    /\ \A j \in LogIdx :
          log[j].op = "extract_stresses_and_forces"
          => /\ \E i \in 1..(j - 1) :
                   /\ log[i].op = "differential_evolution"
                   /\ log[i].fit = log[j].fit
                   /\ log[i].arg.labels = log[j].arg.labels
             /\ log[j].arg.x = OptimizeResult(log[j].fit).x
             /\ \A i \in LogIdx :
                   (log[i].op = log[j].op /\ log[i].fit = log[j].fit) => i = j
    /\ \A j \in LogIdx :
          log[j].op \in Persisting
          => \E i \in 1..(j - 1) :
                /\ log[i].op = "extract_stresses_and_forces"
                /\ log[i].fit = log[j].fit

\* Two subsets were fitted, extracted and saved, and run_fit returned.
C12_Witness ==
    /\ fpc = "returned"
    /\ Len(fit_sets) = 2
    /\ Cardinality({j \in LogIdx : log[j].op = "save_data"}) = 2

\* The identifier the claim asks for: the structure numbers, 1-indexed, in
\* ascending order, joined by '-'.
SortedIdentifier(structs) ==
    LET sorted == NpSortRec(structs)
    IN Join("-", [i \in 1..Len(sorted) |-> Format(sorted[i] + 1)])

\* C13: for every subset given to run_fit, in any order, the output
\* identifier is the 1-indexed structure numbers in ascending order joined
\* by '-'.
C13_IdentifierSorted ==
    \A j \in LogIdx :
        log[j].op = "create_directory"
        => log[j].arg = SortedIdentifier(fit_sets[log[j].fit])
\* C19: reset_directories is called on every exit from run_fit, also when a
\* call of the loop body raised, and run_fit returns without error when the
\* sequence of subsets is empty.
C19_TeardownOnEveryExit ==
    /\ (fpc \in {"raised", "returned"} /\ fit_sets # <<>>)
          => (log # <<>> /\ \E j \in LogIdx : log[j].op = "reset_directories")
    /\ fit_sets = <<>> => fpc # "raised"
\* C14: the error recomputed from the saved arrays as
\* force_diff + 0.001 * stress_diff, with force_diff the summed squared force
\* residuals over the number of force components and stress_diff the summed
\* squared stress residuals over 6, equals the error the fit reported.
C14_ErrorDecomposition ==
    epc = "recomputed"
    => /\ RatEq(terms.total, reported)
       /\ RatEq(terms.total,
                RatAdd(terms.force_diff, RatMul(Rat(1, StressScaleInv), terms.stress_diff)))
       /\ terms.force_diff.den = NpSize(arrays.dft_forces)
       /\ terms.stress_diff.den = StressComponents

\* The error of a fit to two structures with non-zero force and stress
\* residuals has been recomputed.
C14_Witness ==
    /\ epc = "recomputed" /\ ~doubled
    /\ Len(sel) = 2
    /\ terms.force_diff.num > 0
    /\ terms.stress_diff.num > 0

Twice(r) == Rat(2 * r.num, r.den)

\* C15 as stated: with every structure twice, the force term and the stress
\* term are both twice those of the original set.
C15_BothTermsDouble ==
    (doubled /\ epc = "recomputed")
    => /\ RatEq(terms.force_diff, Twice(first.force_diff))
       /\ RatEq(terms.stress_diff, Twice(first.stress_diff))

\* C15 as amended: with every structure twice the stress term (a sum over
\* all structures divided by 6) is twice that of the original set, and the
\* force term (a sum over all structures divided by the number of force
\* components of all structures) is the same as that of the original set.
C15_StressDoublesForceStays ==
    (doubled /\ epc = "recomputed")
    => /\ RatEq(terms.force_diff, first.force_diff)
       /\ RatEq(terms.stress_diff, Twice(first.stress_diff))
       /\ terms.force_diff.num = 2 * first.force_diff.num
       /\ terms.force_diff.den = 2 * first.force_diff.den

\* A doubled fit with non-zero force and stress residuals has been recomputed.
C15_Witness ==
    /\ doubled /\ epc = "recomputed"
    /\ first.force_diff.num > 0
    /\ first.stress_diff.num > 0
InBounds(x, bnds) ==
    \A j \in 1..Len(x) : bnds[j].lo * Unit <= x[j] /\ x[j] <= bnds[j].hi * Unit

\* C16: in every generation, the initial population included, every
\* candidate vector handed to the objective has component i within the
\* inclusive range bounds[i].
C16_CandidatesWithinBounds ==
    dpc = "scoring"
    => /\ Len(trial_pop) = PopSize
       /\ \A i \in 1..PopSize :
            /\ Len(trial_pop[i]) = Len(de_bounds)
            /\ InBounds(ScaleParameters(trial_pop[i], de_bounds), de_bounds)

\* A generation after the initial one is being scored, a mutant of it left
\* the unit interval in some component, and the two bounds differ.
C16_Witness ==
    /\ dpc = "scoring" /\ gen >= 1
    /\ de_bounds[1] # de_bounds[2]
    /\ \E i \in 1..PopSize : \E j \in 1..Dim :
          /\ trial_raw[i][j] > Unit \/ trial_raw[i][j] < 0
          /\ i \in Range(finished)

\* The run in which every generation is scored in index order.
InOrderScores(rows) ==
    [i \in 1..PopSize |-> Energy(Objective(ScaleParameters(rows[i], de_bounds)))]
InOrderStart ==
    LET l == InitPopulationLhs(NpSeed(0, [kind |-> "int", v |-> de_seed]))
        s == Selection(l.rows, Unscored, l.rows, InOrderScores(l.rows))
    IN [rows |-> s.rows, energies |-> s.energies, start |-> l.rows, state |-> l.state]
InOrderStep(rows, energies, state) ==
    LET m == Mutants(1, rows, state)
        c == EnsureConstraint(m.rows, m.state)
        s == Selection(rows, energies, c.rows, InOrderScores(c.rows))
    IN [rows |-> s.rows, energies |-> s.energies, start |-> rows, state |-> c.state]
InOrderRun[n \in 0..MaxGen] ==
    IF n = 0 THEN InOrderStart
    ELSE LET p == InOrderRun[n - 1] IN InOrderStep(p.rows, p.energies, p.state)

C20_LoopTerminatesIffEnoughSubsets ==
    /\ (fits.v <= Choose(structures.v, structures_to_fit.v))
         ~> (pc = "done" /\ Len(result) = fits.v)
    /\ [](fits.v > Choose(structures.v, structures_to_fit.v)
            => /\ ~Finished
               /\ Len(sets_of_structures) < fits.v)

\* The loop has ended with every one of the distinct subsets accepted.
C20_Witness ==
    /\ pc = "done"
    /\ structures_to_fit.v < structures.v
    /\ fits.v = Choose(structures.v, structures_to_fit.v)
    /\ Len(result) = fits.v

\* C21: within one run_fit call over the output of random_set_of_structures,
\* the fits of two different subsets never create or save to a directory of
\* the same identifier.
C21_DistinctIdentifiers ==
    \A i \in LogIdx : \A j \in LogIdx :
        ( /\ log[i].op \in {"create_directory", "save_data"}
          /\ log[j].op \in {"create_directory", "save_data"}
          /\ log[i].fit # log[j].fit )
        => LET dir(e) == IF e.op = "save_data" THEN e.arg.dir ELSE e.arg
           IN dir(log[i]) # dir(log[j])

\* run_fit has returned after saving the fits of three sampled subsets, two
\* of which share a structure.
C21_Witness ==
    /\ fpc = "returned"
    /\ Len(fit_sets) = 3
    /\ Cardinality({j \in LogIdx : log[j].op = "save_data"}) = 3
    /\ PySet(fit_sets[1]) \cap PySet(fit_sets[2]) # {}

\* C22: a seeded call that returns leaves the global generator in a state
\* fixed by (seed, fits, structures, structures_to_fit): it has seeded the
\* generator, and the same call made again from another generator state
\* leaves the same state behind, which is the state the generator is in when
\* the caller goes on (to run_fit with seed=None, which draws from it).
C22_SeededCallFixesGeneratorState ==
    /\ (SeedGiven /\ pc = "done") => seeded
    /\ (call = 2 /\ SeedGiven /\ pc = "done") => (left = prev.left /\ rng = left)

\* The second of two seeded calls has returned after drawing; the calls were
\* entered with the generator in different states, and the state left behind
\* differs from the one the call was entered with.
C22_Witness ==
    /\ call = 2 /\ SeedGiven /\ pc = "done"
    /\ drew
    /\ entry # prev.entry
    /\ rng # entry
    /\ rng # prev.entry
====
